---- MODULE Spec2Model ----
(***************************************************************************)
(* Model of run_AI_analysis.py: the agentic tool-call loop that connects a *)
(* chat-completions endpoint to the tool service of the corpus server.     *)
(*                                                                         *)
(* The script is one sequential thread.  Its state is the module-level     *)
(* names (tools, messages, msg, the loop counter), the position of the     *)
(* thread (pc), and - to state properties about its effects - what it has  *)
(* sent to the two services and what it has printed.                       *)
(***************************************************************************)
EXTENDS Integers, Sequences, FiniteSets, TLC

VARIABLES
    pc,         \* position of the script: fetch, loop, chat, tools, done, exhausted, failed
    tools,      \* line 9: the tool catalog
    messages,   \* line 11: the transcript
    round,      \* line 27: number of loop iterations started
    msg,        \* line 33: the assistant message of the current iteration
    idx,        \* line 40: position of the for-loop in msg.tool_calls
    stdout,     \* line 37: what print() has written
    chatLog,    \* the chat.completions.create requests sent (lines 28-32)
    toolLog,    \* the /api/tools/call requests sent (lines 41-44)
    raised      \* the uncaught exception that ended the script, if any

vars == <<pc, tools, messages, round, msg, idx, stdout, chatLog, toolLog, raised>>

----------------------------------------------------------------------------
(* Bounds of the environment *)

\* the longest tool_calls list the chat service returns
MaxCalls == 3

\* range(10), line 27
maxRounds == 10

None == "None"

\* the catalogs GET /api/tools may return
Catalogs == { <<"search">>, <<"search", "annotate">> }

\* the textual contents the chat service may return (None: content absent)
Contents == { None, "Done", "Nothing found" }

\* the result texts the tool service may return
Results == { "3 passages found" }

\* the ways a POST to /api/tools/call ends without a "result":
\*   ToolFailure: the service reports an unknown tool, invalid arguments or
\*                an execution error (a body without "result": KeyError, line 48)
\*   Transport:   the service is unreachable or the body is not JSON
\*                (requests.post or .json() raises, lines 41-44)
ToolErrors == { "ToolFailure", "Transport" }

ToolNames == <<"search", "annotate">>

\* the i-th tool-call request of a response: ids are unique per response
ToolCall(i) ==
    [ id        |-> <<"call", i>>,
      name      |-> ToolNames[((i - 1) % 2) + 1],
      arguments |-> <<"args", i>> ]

Requests(n) == [ i \in 1..n |-> ToolCall(i) ]

\* Optional list: Python's None or a list
NoList == [ none |-> TRUE, list |-> <<>> ]
List(s) == [ none |-> FALSE, list |-> s ]

\* the tool_calls the chat service may return with a response
ToolCallLists ==
    { NoList, List(<<>>), List(Requests(1)), List(Requests(MaxCalls)) }

----------------------------------------------------------------------------
(* Messages *)

SystemMessage ==
    [ role    |-> "system",
      content |-> "You are a musicology research assistant. Use the available tools to analyse the corpus. When you find a relevant passage, write an annotation with a concise tag." ]

UserMessage ==
    [ role    |-> "user",
      content |-> "Search the corpus for uses of the word 'sublime' and annotate the three most significant passages." ]

\* Python truthiness of msg.tool_calls (line 36): None and [] are falsy
Truthy(tc) == ~tc.none /\ Len(tc.list) > 0

\* the responses of the chat service: choices[0].message
AssistantMessages ==
    { [ role |-> "assistant", content |-> c, tool_calls |-> tc ] :
        c \in Contents, tc \in ToolCallLists }

\* a response with tool calls carries no content in this model
Responses ==
    { m \in AssistantMessages : Truthy(m.tool_calls) => m.content = None }

\* msg before line 33 has run: the name is not bound yet
NoMessage == [ role |-> "none", content |-> None, tool_calls |-> NoList ]

ToolRequestAltered(call) == [ name |-> call.name, arguments |-> <<"args", 1>> ]

\* lines 41-44: the body posted to /api/tools/call
ToolRequest(call) == [ name |-> call.name, arguments |-> call.arguments ]

ToolMessageFirstId(call, result) ==
    [ role |-> "tool", tool_call_id |-> msg.tool_calls.list[1].id, content |-> result ]

ToolMessageAsUser(call, result) ==
    [ role |-> "user", tool_call_id |-> call.id, content |-> result ]

\* lines 45-49: the tool message appended for a call
ToolMessage(call, result) ==
    [ role |-> "tool", tool_call_id |-> call.id, content |-> result ]

ChatRequestFiltered ==
    [ model |-> "qwen2.5:7b",
      tools |-> IF round = 1 THEN tools ELSE SubSeq(tools, 1, 1),
      messages |-> messages ]

\* lines 28-32: the request sent to the chat service
ChatRequest == [ model |-> "qwen2.5:7b", tools |-> tools, messages |-> messages ]

OneRoundMore(r) == r <= maxRounds

\* line 27: range(10) has another value after r iterations
MoreRounds(r) == r < maxRounds

PrintedAlways(m) == <<m.content>>

\* lines 36-37: what the iteration prints for the response m
Printed(m) == IF ~Truthy(m.tool_calls) THEN <<m.content>> ELSE <<>>

NoBreak(m) == IF ~Truthy(m.tool_calls) THEN "loop" ELSE "tools"

\* lines 36-40: break on a response without tool calls, else run its calls
AfterCompletion(m) == IF ~Truthy(m.tool_calls) THEN "done" ELSE "tools"

CallAtReversed(list, i) == list[Len(list) + 1 - i]

\* line 40: the i-th call the for-loop visits
CallAt(list, i) == list[i]

MoreCallsButLast(list, i) == i < Len(list) - 1

\* line 40: the for-loop has another call after the i-th
MoreCalls(list, i) == i < Len(list)

----------------------------------------------------------------------------
(* The script *)

Init ==
    /\ pc = "fetch"
    /\ tools = <<>>
    /\ messages = << SystemMessage, UserMessage >>
    /\ round = 0
    /\ msg = NoMessage
    /\ idx = 0
    /\ stdout = <<>>
    /\ chatLog = <<>>
    /\ toolLog = <<>>
    /\ raised = None

\* line 9: the catalog is fetched once
FetchTools ==
    /\ pc = "fetch"
    /\ \E c \in Catalogs : tools' = c
    /\ pc' = "loop"
    /\ UNCHANGED <<messages, round, msg, idx, stdout, chatLog, toolLog, raised>>

\* line 9: requests.get raises, or the body has no "tools"
FetchToolsError ==
    /\ pc = "fetch"
    /\ pc' = "failed"
    /\ raised' = "Fetch"
    /\ UNCHANGED <<tools, messages, round, msg, idx, stdout, chatLog, toolLog>>

\* line 27: for _ in range(10); the script ends when the range is used up
ForNext ==
    /\ pc = "loop"
    /\ IF MoreRounds(round)
         THEN pc' = "chat" /\ round' = round + 1
         ELSE pc' = "exhausted" /\ round' = round
    /\ UNCHANGED <<tools, messages, msg, idx, stdout, chatLog, toolLog, raised>>

ChatCompletionBreakFirst ==
    /\ pc = "chat"
    /\ \E m \in Responses :
         /\ chatLog' = Append(chatLog, ChatRequest)
         /\ msg' = m
         /\ messages' = IF Truthy(m.tool_calls) THEN Append(messages, m) ELSE messages
         /\ stdout' = stdout \o Printed(m)
         /\ pc' = AfterCompletion(m)
         /\ idx' = IF AfterCompletion(m) = "tools" THEN 1 ELSE idx
    /\ UNCHANGED <<tools, round, toolLog, raised>>

\* lines 28-38 and the head of line 40: the chat service answers
ChatCompletion ==
    /\ pc = "chat"
    /\ \E m \in Responses :
         /\ chatLog' = Append(chatLog, ChatRequest)
         /\ msg' = m
         /\ messages' = Append(messages, m)
         /\ stdout' = stdout \o Printed(m)
         /\ pc' = AfterCompletion(m)
         /\ idx' = IF AfterCompletion(m) = "tools" THEN 1 ELSE idx
    /\ UNCHANGED <<tools, round, toolLog, raised>>

ChatErrorRetried ==
    /\ pc = "chat"
    /\ pc' = "loop"
    /\ round' = round - 1
    /\ raised' = "Chat"
    /\ UNCHANGED <<tools, messages, msg, idx, stdout, chatLog, toolLog>>

ChatErrorSwallowed ==
    /\ pc = "chat"
    /\ chatLog' = Append(chatLog, ChatRequest)
    /\ pc' = "loop"
    /\ raised' = "Chat"
    /\ UNCHANGED <<tools, messages, round, msg, idx, stdout, toolLog>>

\* lines 28-32: the call raises (transport or service error); nothing
\* catches the exception
ChatError ==
    /\ pc = "chat"
    /\ chatLog' = Append(chatLog, ChatRequest)
    /\ pc' = "failed"
    /\ raised' = "Chat"
    /\ UNCHANGED <<tools, messages, round, msg, idx, stdout, toolLog>>

ToolCallStepNoAppend ==
    /\ pc = "tools"
    /\ toolLog' = Append(toolLog, ToolRequest(CallAt(msg.tool_calls.list, idx)))
    /\ IF MoreCalls(msg.tool_calls.list, idx)
         THEN idx' = idx + 1 /\ pc' = "tools"
         ELSE idx' = idx /\ pc' = "loop"
    /\ UNCHANGED <<tools, messages, round, msg, stdout, chatLog, raised>>

\* lines 40-49: one iteration of the for-loop over msg.tool_calls
ToolCallStep ==
    /\ pc = "tools"
    /\ LET call == CallAt(msg.tool_calls.list, idx) IN
         /\ toolLog' = Append(toolLog, ToolRequest(call))
         /\ \E r \in Results :
              messages' = Append(messages, ToolMessage(call, r))
    /\ IF MoreCalls(msg.tool_calls.list, idx)
         THEN idx' = idx + 1 /\ pc' = "tools"
         ELSE idx' = idx /\ pc' = "loop"
    /\ UNCHANGED <<tools, round, msg, stdout, chatLog, raised>>

\* lines 41-48: requests.post or .json() raises, or the body has no
\* "result" key (KeyError); nothing catches the exception
ToolCallError ==
    /\ pc = "tools"
    /\ toolLog' = Append(toolLog, ToolRequest(CallAt(msg.tool_calls.list, idx)))
    /\ pc' = "failed"
    /\ \E e \in ToolErrors : raised' = e
    /\ UNCHANGED <<tools, messages, round, msg, idx, stdout, chatLog>>

Next ==
    \/ FetchTools
    \/ FetchToolsError
    \/ ForNext
    \/ ChatCompletion
    \/ ChatError
    \/ ToolCallStep
    \/ ToolCallError

Spec == Init /\ [][Next]_vars

\* The script is one thread that runs until it ends, and every call to a
\* service returns or raises: a step that can be taken is taken.
FairSpec == Spec /\ WF_vars(Next)

----------------------------------------------------------------------------
(* Vocabulary of the properties *)

IsAssistant(m) == m.role = "assistant"

IsTool(m) == m.role = "tool"

\* the tool-call requests an assistant message carries
CallsOf(m) == IF IsAssistant(m) THEN m.tool_calls.list ELSE <<>>

IsFinal(m) == IsAssistant(m) /\ CallsOf(m) = <<>>

\* positions of the assistant messages in a transcript
AssistantAt(ms) == { p \in 1..Len(ms) : IsAssistant(ms[p]) }

\* number of assistant messages up to position p: the round of ms[p]
RoundOf(ms, p) == Cardinality({ q \in AssistantAt(ms) : q <= p })

\* all tool-call requests of a transcript, in order
RECURSIVE RequestsIn(_)
RequestsIn(ms) ==
    IF ms = <<>> THEN <<>> ELSE CallsOf(Head(ms)) \o RequestsIn(Tail(ms))

ToolMessagesIn(ms) == SelectSeq(ms, IsTool)

\* every request of every assistant message of ms is answered in ms, in
\* place and in order
Answered(ms) ==
    \A p \in AssistantAt(ms) : \A j \in 1..Len(CallsOf(ms[p])) :
        /\ p + j <= Len(ms)
        /\ IsTool(ms[p + j])
        /\ ms[p + j].tool_call_id = CallsOf(ms[p])[j].id

IsPrefix(s, t) == Len(s) <= Len(t) /\ SubSeq(t, 1, Len(s)) = s

Terminated == ~ENABLED Next

----------------------------------------------------------------------------
(* Properties *)

\* C1: when the k-th response the chat service returns is the first without
\* tool-call requests, the run is done after exactly k rounds and k chat
\* calls, nothing more happens, and what it printed is that response's content.
C1_Termination ==
    \A p \in AssistantAt(messages) :
        IsFinal(messages[p]) =>
            /\ pc = "done"
            /\ Terminated
            /\ p = Len(messages)
            /\ round = RoundOf(messages, p)
            /\ Len(chatLog) = RoundOf(messages, p)
            /\ stdout = << messages[p].content >>

\* C1 witness: a run that is done after more than one round
C1_Witness ==
    /\ pc = "done"
    /\ round = 3
    /\ IsFinal(messages[Len(messages)])
    /\ stdout = << "Done" >>

\* C2: the number of chat calls never exceeds maxRounds; a run that has
\* ended without an exception and in which every response carried tool
\* calls made exactly maxRounds chat calls and is exhausted, and conversely.
C2_BudgetRespect ==
    /\ Len(chatLog) <= maxRounds
    /\ round <= maxRounds
    /\ (Terminated /\ raised = None /\ \A p \in AssistantAt(messages) : ~IsFinal(messages[p]))
          => (pc = "exhausted" /\ Len(chatLog) = maxRounds)
    /\ pc = "exhausted"
          => /\ Len(chatLog) = maxRounds
             /\ Cardinality(AssistantAt(messages)) = maxRounds
             /\ \A p \in AssistantAt(messages) : ~IsFinal(messages[p])

\* C2 witness: the budget is used up
C2_Witness ==
    /\ pc = "exhausted"
    /\ Len(chatLog) = maxRounds

\* C3: the tool service is invoked for the requests of an assistant message
\* in their order, and the tool messages follow the assistant message in
\* that order, each with the id of its request.
C3_Ordering ==
    /\ LET requested == RequestsIn(messages) IN
          /\ Len(toolLog) <= Len(requested)
          /\ \A i \in 1..Len(toolLog) : toolLog[i] = ToolRequest(requested[i])
    /\ \A p \in AssistantAt(messages) : \A j \in 1..Len(CallsOf(messages[p])) :
          p + j <= Len(messages) =>
              /\ IsTool(messages[p + j])
              /\ messages[p + j].tool_call_id = CallsOf(messages[p])[j].id

\* C3 witness: a turn of three requests has been executed
C3_Witness ==
    /\ pc = "loop"
    /\ round = 2
    /\ Len(msg.tool_calls.list) = 3
    /\ SubSeq(toolLog, Len(toolLog) - 2, Len(toolLog))
          = << ToolRequest(ToolCall(1)), ToolRequest(ToolCall(2)), ToolRequest(ToolCall(3)) >>
    /\ messages[Len(messages)].tool_call_id = ToolCall(3).id
    /\ messages[Len(messages) - 1].tool_call_id = ToolCall(2).id
    /\ messages[Len(messages) - 2].tool_call_id = ToolCall(1).id

\* C4: the transcript of every chat request holds the tool message of every
\* request of every assistant message in it.
C4_NoPartialResults ==
    \A i \in 1..Len(chatLog) : Answered(chatLog[i].messages)

\* C4 witness: a chat call made after a turn of several requests
C4_Witness ==
    /\ Len(chatLog) = 2
    /\ Len(RequestsIn(chatLog[2].messages)) = MaxCalls
    /\ Len(ToolMessagesIn(chatLog[2].messages)) = MaxCalls

\* C5: a failure the tool service reports (unknown tool, invalid arguments,
\* execution error) never ends the run: no such failure is ever an uncaught
\* exception, and unless the transport failed every tool request sent is
\* answered by a tool message with the id of its call.
C5_ToolFailureFolded ==
    /\ raised # "ToolFailure"
    /\ raised # "Transport" =>
          /\ Len(ToolMessagesIn(messages)) = Len(toolLog)
          /\ \A i \in 1..Len(toolLog) :
                ToolMessagesIn(messages)[i].tool_call_id = RequestsIn(messages)[i].id

\* C6: an exception of the chat call ends the run at once: the run is in
\* the failure outcome, nothing further happens, the failed request is the
\* last one sent, and nothing was printed.
C6_ChatErrorFatal ==
    raised = "Chat" =>
        /\ pc = "failed"
        /\ Terminated
        /\ Len(chatLog) = round
        /\ Len(chatLog) = Cardinality(AssistantAt(messages)) + 1
        /\ Len(toolLog) = Len(RequestsIn(messages))
        /\ stdout = <<>>

\* C6 witness: the chat call of a later round failed
C6_Witness ==
    /\ raised = "Chat"
    /\ round = 2
    /\ Len(toolLog) > 0

\* C7: every chat request carries the catalog as fetched at the start.
C7_CatalogImmutable ==
    /\ pc # "fetch" /\ raised # "Fetch" => tools \in Catalogs
    /\ \A i \in 1..Len(chatLog) : chatLog[i].tools = tools

\* C7 witness: several rounds with a catalog of two tools
C7_Witness ==
    /\ Len(chatLog) = 3
    /\ Len(tools) = 2

\* the shape of the transcript
TranscriptShape ==
    /\ Len(messages) >= 2
    /\ messages[1] = SystemMessage
    /\ messages[2] = UserMessage
    /\ \A p \in 3..Len(messages) : messages[p].role \in { "assistant", "tool" }

\* C8: the transcript starts with the system and the user message, every
\* later message is an assistant or a tool message, and every step leaves
\* the previous transcript as a prefix.
C8_AppendOnly ==
    /\ []TranscriptShape
    /\ [][ IsPrefix(messages, messages') ]_vars

\* C8 witness: a transcript with assistant and tool messages
C8_Witness ==
    /\ Len(messages) = 7
    /\ IsTool(messages[4])
    /\ IsAssistant(messages[Len(messages)])

\* C9: the run prints at most once, and only the content of a response
\* without tool calls, in the round of that response; an exhausted run has
\* printed nothing.
C9_SoleOutput ==
    /\ Len(stdout) <= 1
    /\ stdout # <<>> =>
          /\ pc = "done"
          /\ IsFinal(messages[Len(messages)])
          /\ stdout[1] = messages[Len(messages)].content
    /\ pc = "done" => Len(stdout) = 1
    /\ pc \in { "exhausted", "failed", "tools", "chat", "loop", "fetch" } => stdout = <<>>

\* C9 witness: an exhausted run, which printed nothing
C9_Witness ==
    /\ pc = "exhausted"
    /\ stdout = <<>>
    /\ Cardinality(AssistantAt(messages)) = maxRounds

\* C10: at most one tool call per request at any time, and exactly one per
\* request when the run has ended without an exception; with one request
\* per round an exhausted run made maxRounds chat and maxRounds tool calls.
C10_OncePerRequest ==
    /\ Len(toolLog) <= Len(RequestsIn(messages))
    /\ pc \in { "done", "exhausted", "loop", "chat" } =>
          /\ Len(toolLog) = Len(RequestsIn(messages))
          /\ Len(ToolMessagesIn(messages)) = Len(toolLog)
    /\ (pc = "exhausted" /\ \A p \in AssistantAt(messages) : Len(CallsOf(messages[p])) = 1)
          => (Len(chatLog) = maxRounds /\ Len(toolLog) = maxRounds)

\* C10 witness: exhausted with one request per round
C10_Witness ==
    /\ pc = "exhausted"
    /\ \A p \in AssistantAt(messages) : Len(CallsOf(messages[p])) = 1
    /\ Len(toolLog) = maxRounds

\* the position of the last assistant message of the transcript (0: none)
LastAssistant ==
    IF AssistantAt(messages) = {} THEN 0
    ELSE CHOOSE p \in AssistantAt(messages) : \A q \in AssistantAt(messages) : q <= p

\* the scenario: the first response carries the single request ToolCall(1)
\* (tool search), its result came back, and the second response is final
Scenario ==
    /\ Cardinality(AssistantAt(messages)) = 2
    /\ IsAssistant(messages[3])
    /\ CallsOf(messages[3]) = << ToolCall(1) >>
    /\ IsFinal(messages[LastAssistant])

ScenarioOutcome ==
    /\ pc = "done"
    /\ round = 2
    /\ Len(chatLog) = 2
    /\ stdout = << messages[LastAssistant].content >>
    /\ IsTool(messages[4])
    /\ messages[4].tool_call_id = ToolCall(1).id
    /\ LastAssistant = Len(messages)

\* C11 as stated: in the scenario the run ends after round 2 with the
\* round-2 content and 4 messages beyond system and user.
C11_ScenarioFourMessages ==
    Scenario => (ScenarioOutcome /\ Len(messages) = 2 + 4)

\* C11 amended: in the scenario the run ends after round 2 with the round-2
\* content and 3 messages beyond system and user: assistant, tool, assistant.
C11_ScenarioThreeMessages ==
    Scenario =>
        /\ ScenarioOutcome
        /\ Len(messages) = 2 + 3
        /\ [ p \in 1..3 |-> messages[2 + p].role ] = << "assistant", "tool", "assistant" >>

\* C11 witness: the scenario has run
C11_Witness ==
    /\ Scenario
    /\ stdout = << "Done" >>
    /\ messages[4].content = "3 passages found"

\* the position of the nearest assistant message at or before p (0: none)
RECURSIVE Owner(_)
Owner(p) ==
    IF p = 0 THEN 0
    ELSE IF IsAssistant(messages[p]) THEN p ELSE Owner(p - 1)

\* C12: the id of every tool message is the id of a request of the nearest
\* assistant message before it, and no request has two tool messages: no
\* other tool message of that turn carries the same id.
C12_Correlation ==
    \A p \in 1..Len(messages) :
        IsTool(messages[p]) =>
            LET a == Owner(p) IN
                /\ a > 0
                /\ \E j \in 1..Len(CallsOf(messages[a])) :
                      CallsOf(messages[a])[j].id = messages[p].tool_call_id
                /\ \A q \in (a + 1)..(p - 1) :
                      messages[q].tool_call_id # messages[p].tool_call_id

\* C12 witness: two turns answered, one of them with several requests
C12_Witness ==
    /\ Cardinality(AssistantAt(messages)) = 2
    /\ Len(ToolMessagesIn(messages)) = MaxCalls + 1
    /\ pc = "loop"

\* the controller states of the design, read off the position of the script
\* once the run has started (the catalog fetch of line 9 precedes the run)
ControllerState ==
    CASE pc \in { "loop", "chat" } -> "awaiting-model"
      [] pc = "tools"              -> "awaiting-tools"
      [] pc = "done"               -> "done"
      [] pc = "exhausted"          -> "exhausted"
      [] pc = "failed"             -> "failure"
      [] OTHER                     -> "starting"

\* the requests of the last assistant message that have no tool message yet
Pending ==
    IF LastAssistant = 0 THEN 0
    ELSE Len(CallsOf(messages[LastAssistant])) - (Len(messages) - LastAssistant)

StateMatchesData ==
    /\ ControllerState \in
          { "starting", "awaiting-model", "awaiting-tools", "done", "exhausted", "failure" }
    /\ ControllerState = "starting" <=> (pc = "fetch")
    /\ ControllerState = "failure" <=> (raised # None)
    /\ raised = None =>
          /\ ControllerState = "awaiting-tools" <=> (Pending > 0)
          /\ ControllerState = "done" <=>
                (LastAssistant > 0 /\ IsFinal(messages[LastAssistant]))
          /\ ControllerState = "exhausted" =>
                (round = maxRounds /\ Len(chatLog) = maxRounds)
    /\ ControllerState \in { "done", "exhausted", "failure" } => Terminated

OneCallPerStep ==
    /\ Len(chatLog') + Len(toolLog') <= Len(chatLog) + Len(toolLog) + 1
    /\ chatLog' # chatLog => ControllerState = "awaiting-model"
    /\ toolLog' # toolLog => ControllerState = "awaiting-tools"
    /\ ControllerState \in { "done", "exhausted" } => UNCHANGED vars

\* C13: once the run has started the controller is awaiting the model
\* exactly when no request is pending and no final response has come,
\* awaiting tools exactly when a request is pending, done exactly when the
\* last response is final, exhausted only after maxRounds rounds, failed
\* exactly when an exception was raised; each step sends at most one request,
\* to the chat service only when awaiting the model and to the tool service
\* only when awaiting tools; in done and exhausted nothing is enabled.
C13_ControllerStates ==
    /\ []StateMatchesData
    /\ [][OneCallPerStep]_vars

\* C13 witness: all four states of the design have been passed through
C13_Witness ==
    /\ ControllerState = "exhausted"
    /\ Len(toolLog) > maxRounds
    /\ Terminated

Ended == pc \in { "done", "exhausted", "failed" }

\* C14: when every call returns or raises, the run eventually is done,
\* exhausted or failed, whatever the responses are.
C14_Terminates == <>Ended

\* C14 witness: the longest run, every response with MaxCalls requests
C14_Witness ==
    /\ pc = "exhausted"
    /\ Terminated
    /\ Len(messages) = 2 + maxRounds * (1 + MaxCalls)

\* the step sends the name and the arguments of request c to the tool service
Invokes(c) ==
    toolLog' = Append(toolLog, [ name |-> c.name, arguments |-> c.arguments ])

RequestedOnly ==
    /\ toolLog' # toolLog =>
          /\ LastAssistant > 0
          /\ msg = messages[LastAssistant]
          /\ \E j \in 1..Len(CallsOf(messages[LastAssistant])) :
                Invokes(CallsOf(messages[LastAssistant])[j])
    /\ messages' # messages /\ IsAssistant(messages'[Len(messages')]) =>
          /\ messages'[Len(messages')] \in Responses
          /\ msg' = messages'[Len(messages')]
    /\ \A p \in AssistantAt(messages) : messages'[p] = messages[p]

\* C15: every request sent to the tool service carries the name and the
\* arguments of a request of the latest assistant message; an assistant
\* message enters the transcript as the chat service returned it and is
\* never changed afterwards.
C15_OnlyRequestedTools == [][RequestedOnly]_vars

\* C15 witness: the second request of a turn (annotate) has been sent
C15_Witness ==
    /\ pc = "tools"
    /\ idx = 3
    /\ toolLog[Len(toolLog)] = [ name |-> "annotate", arguments |-> <<"args", 2>> ]

FinalRound ==
    pc' = "done" =>
        /\ messages' = Append(messages, msg')
        /\ msg'.tool_calls \in { NoList, List(<<>>) }
        /\ toolLog' = toolLog

FinalIsLast ==
    /\ pc = "done" =>
          /\ messages[Len(messages)] = msg
          /\ IsFinal(msg)
          /\ Len(toolLog) = Len(RequestsIn(messages))
    /\ (LastAssistant > 0 /\ IsFinal(messages[LastAssistant])) => pc = "done"

\* C16: the step that ends the run with a response without tool calls
\* (tool_calls None or empty) appends that response and sends nothing to the
\* tool service; in done the response is the last message of the transcript.
C16_FinalAppended ==
    /\ []FinalIsLast
    /\ [][FinalRound]_vars

\* C16 witness: done on a response with an empty tool_calls list
C16_Witness ==
    /\ pc = "done"
    /\ msg.tool_calls = List(<<>>)
    /\ Len(messages) > 3

\* the calls that have returned: all sent but the one that raised
ChatReturned == Len(chatLog) - (IF raised = "Chat" THEN 1 ELSE 0)

ToolReturned == Len(toolLog) - (IF raised \in ToolErrors THEN 1 ELSE 0)

\* C17: the transcript has 2 + (chat calls returned) + (tool calls returned)
\* messages; exhausted after one tool call in each of the 10 rounds it has 22.
C17_TranscriptLength ==
    /\ Len(messages) = 2 + ChatReturned + ToolReturned
    /\ (pc = "exhausted" /\ \A p \in AssistantAt(messages) : Len(CallsOf(messages[p])) = 1)
          => Len(messages) = 22

\* C17 witness: 22 messages after 10 rounds of one tool call each
C17_Witness ==
    /\ pc = "exhausted"
    /\ Len(messages) = 22
    /\ Len(toolLog) = 10

====
